---------------------------- MODULE Spec2Model ----------------------------
(***************************************************************************)
(* Connect Four engine of connect4.py: the board model (initial_board,     *)
(* player, actions, result), the win detector (winner, terminal), the      *)
(* static evaluator (utility, slice_utility), the depth-limited alpha-beta *)
(* search (alphabeta, minimax) and the interaction loop (main).            *)
(*                                                                         *)
(* A board is board[row][col] with row 0 the top row, as in the numpy      *)
(* array of the source.  Python's None is modelled by None for cells and   *)
(* winners (strings) and by NoAction for the action slot of the search     *)
(* result (an integer, as TLC cannot compare a string with a column).      *)
(* float("inf") is modelled by Inf, larger than any finite utility.        *)
(***************************************************************************)
EXTENDS Integers, Sequences, FiniteSets, TLC

RED == "R"
YELLOW == "Y"
None == "None"
EMPTY == None

BOARD_WIDTH == 7
BOARD_HEIGHT == 6

CENTER_WEIGHT == 3

MAX_THREE_IN_A_ROW_WEIGHT == 5
MAX_TWO_IN_A_ROW_WEIGHT == 2

MIN_THREE_IN_A_ROW_WEIGHT == -4
MIN_TWO_IN_A_ROW_WEIGHT == -1

\* float("inf"): above every finite utility (at most 3*6 + 69*5 = 363)
Inf == 1000

\* the None in the action slot of alphabeta's (value, action) pair
NoAction == -1

Rows == 0 .. (BOARD_HEIGHT - 1)
Cols == 0 .. (BOARD_WIDTH - 1)

\* range(n) as a sequence
range(n) == [i \in 1 .. n |-> i - 1]

max(a, b) == IF a >= b THEN a ELSE b
min(a, b) == IF a <= b THEN a ELSE b

SetMax(S) == CHOOSE m \in S : \A n \in S : n <= m
SetMin(S) == CHOOSE m \in S : \A n \in S : m <= n

-----------------------------------------------------------------------------
(* Board model *)

initial_board == [row \in Rows |-> [col \in Cols |-> EMPTY]]

\* (board == v).sum()
CountEq(board, v) == Cardinality({rc \in Rows \X Cols : board[rc[1]][rc[2]] = v})

\* sum(1 for row in board for val in row if val is not None)
CountNotNone(board) == Cardinality({rc \in Rows \X Cols : board[rc[1]][rc[2]] # None})

player(board) == IF CountEq(board, EMPTY) % 2 = 0 THEN YELLOW ELSE RED

\* actions with the test made on the bottom row instead of the top row
actions_bottom_row(board) ==
    SelectSeq(range(BOARD_WIDTH), LAMBDA col : board[BOARD_HEIGHT - 1][col] = None)

actions(board) == SelectSeq(range(BOARD_WIDTH), LAMBDA col : board[0][col] = None)

\* the row the loop of result writes: the first empty row met going up from
\* the bottom row; no row when the column is full
DropRows(board, action) == {row \in Rows : board[row][action] = None}

\* result with the rows scanned from the top: the piece stays in the first
\* empty row met going down
result_from_top(board, action) ==
    LET rows == DropRows(board, action)
    IN  IF rows = {}
        THEN board
        ELSE [board EXCEPT ![SetMin(rows)][action] = player(board)]

\* new_board as returned by result
result(board, action) ==
    LET rows == DropRows(board, action)
    IN  IF rows = {}
        THEN board
        ELSE [board EXCEPT ![SetMax(rows)][action] = player(board)]

\* the caller's array after result returns: np.copy gave result its own
\* array, so the assignment to new_board does not reach it
result_input(board, action) == board

-----------------------------------------------------------------------------
(* Win detector *)

directions == << <<1, 0>>, <<1, -1>>, <<1, 1>>, <<0, 1>> >>

\* the starting points visited by the three nested loops of winner, in the
\* order visited: for direction, for x, for y
ScanOrder ==
    [k \in 1 .. 4 * BOARD_WIDTH * BOARD_HEIGHT |->
        [dx |-> directions[((k - 1) \div (BOARD_WIDTH * BOARD_HEIGHT)) + 1][1],
         dy |-> directions[((k - 1) \div (BOARD_WIDTH * BOARD_HEIGHT)) + 1][2],
         x  |-> ((k - 1) % (BOARD_WIDTH * BOARD_HEIGHT)) \div BOARD_HEIGHT,
         y  |-> (k - 1) % BOARD_HEIGHT]]

\* the two range tests on lastx and lasty
LastInRange(x, y, dx, dy) ==
    /\ x + 3 * dx >= 0 /\ x + 3 * dx < BOARD_WIDTH
    /\ y + 3 * dy >= 0 /\ y + 3 * dy < BOARD_HEIGHT

\* the starting points that pass the range tests, in scan order
ScanRuns == SelectSeq(ScanOrder, LAMBDA s : LastInRange(s.x, s.y, s.dx, s.dy))

\* the comparison without the test p is not None
RunOfFourNoEmptyTest(board, x, y, dx, dy) ==
    /\ board[y][x] = board[y + dy][x + dx]
    /\ board[y][x] = board[y + 2 * dy][x + 2 * dx]
    /\ board[y][x] = board[y + 3 * dy][x + 3 * dx]

\* the four-cell comparison at (x, y) in direction (dx, dy)
RunOfFour(board, x, y, dx, dy) ==
    /\ board[y][x] # None
    /\ board[y][x] = board[y + dy][x + dx]
    /\ board[y][x] = board[y + 2 * dy][x + 2 * dx]
    /\ board[y][x] = board[y + 3 * dy][x + 3 * dx]

\* return p at the first starting point of the scan whose comparison succeeds
winner(board) ==
    LET hits == SelectSeq(ScanRuns, LAMBDA s : RunOfFour(board, s.x, s.y, s.dx, s.dy))
    IN  IF hits = <<>> THEN None ELSE board[Head(hits).y][Head(hits).x]

terminal(board) ==
    IF winner(board) # None
    THEN TRUE
    ELSE CountNotNone(board) = BOARD_WIDTH * BOARD_HEIGHT

-----------------------------------------------------------------------------
(* Static evaluator *)

\* (board_slice == v).sum() for a slice of four cells
SliceCount(board_slice, v) ==
      (IF board_slice[1] = v THEN 1 ELSE 0) + (IF board_slice[2] = v THEN 1 ELSE 0)
    + (IF board_slice[3] = v THEN 1 ELSE 0) + (IF board_slice[4] = v THEN 1 ELSE 0)

\* slice_utility without the tests that the other side has no piece in the slice
slice_utility_any_three(board_slice) ==
    LET max_pieces == SliceCount(board_slice, RED)
        min_pieces == SliceCount(board_slice, YELLOW)
    IN  (IF max_pieces = 3 THEN MAX_THREE_IN_A_ROW_WEIGHT
         ELSE IF max_pieces = 2 THEN MAX_TWO_IN_A_ROW_WEIGHT
         ELSE 0)
      + (IF min_pieces = 3 THEN MIN_THREE_IN_A_ROW_WEIGHT
         ELSE IF min_pieces = 2 THEN MIN_TWO_IN_A_ROW_WEIGHT
         ELSE 0)

slice_utility(board_slice) ==
    LET max_pieces == SliceCount(board_slice, RED)
        min_pieces == SliceCount(board_slice, YELLOW)
    IN  (IF max_pieces = 3 /\ min_pieces = 0 THEN MAX_THREE_IN_A_ROW_WEIGHT
         ELSE IF max_pieces = 2 /\ min_pieces = 0 THEN MAX_TWO_IN_A_ROW_WEIGHT
         ELSE 0)
      + (IF min_pieces = 3 /\ max_pieces = 0 THEN MIN_THREE_IN_A_ROW_WEIGHT
         ELSE IF min_pieces = 2 /\ max_pieces = 0 THEN MIN_TWO_IN_A_ROW_WEIGHT
         ELSE 0)

\* the slices of utility as sequences of four <<row, col>> cells, in the order
\* the loops visit them
\* for y in range(BOARD_HEIGHT): for x in range(BOARD_WIDTH - 3): row[x : x + 4]
RowSlices ==
    [k \in 1 .. BOARD_HEIGHT * (BOARD_WIDTH - 3) |->
        LET y == (k - 1) \div (BOARD_WIDTH - 3)
            x == (k - 1) % (BOARD_WIDTH - 3)
        IN  << <<y, x>>, <<y, x + 1>>, <<y, x + 2>>, <<y, x + 3>> >>]

\* for x in range(BOARD_WIDTH): for y in range(BOARD_HEIGHT - 3): column[y : y + 4]
ColumnSlices ==
    [k \in 1 .. BOARD_WIDTH * (BOARD_HEIGHT - 3) |->
        LET x == (k - 1) \div (BOARD_HEIGHT - 3)
            y == (k - 1) % (BOARD_HEIGHT - 3)
        IN  << <<y, x>>, <<y + 1, x>>, <<y + 2, x>>, <<y + 3, x>> >>]

\* for y in range(BOARD_HEIGHT - 3): for x in range(BOARD_WIDTH - 3):
\*     [board[y+i][x+i] for i in range(4)]
DownRightSlices ==
    [k \in 1 .. (BOARD_HEIGHT - 3) * (BOARD_WIDTH - 3) |->
        LET y == (k - 1) \div (BOARD_WIDTH - 3)
            x == (k - 1) % (BOARD_WIDTH - 3)
        IN  << <<y, x>>, <<y + 1, x + 1>>, <<y + 2, x + 2>>, <<y + 3, x + 3>> >>]

\*     [board[y+3-i][x+i] for i in range(4)]
UpRightSlices ==
    [k \in 1 .. (BOARD_HEIGHT - 3) * (BOARD_WIDTH - 3) |->
        LET y == (k - 1) \div (BOARD_WIDTH - 3)
            x == (k - 1) % (BOARD_WIDTH - 3)
        IN  << <<y + 3, x>>, <<y + 2, x + 1>>, <<y + 1, x + 2>>, <<y, x + 3>> >>]

\* every slice utility() passes to slice_utility (the two diagonal families
\* are interleaved in the source; the sum does not depend on the order)
Slices == RowSlices \o ColumnSlices \o DownRightSlices \o UpRightSlices

\* the cells of a slice read off the board
SliceOf(board, cells) ==
    <<board[cells[1][1]][cells[1][2]], board[cells[2][1]][cells[2][2]],
      board[cells[3][1]][cells[3][2]], board[cells[4][1]][cells[4][2]]>>

\* utility += slice_utility(board_slice) over slices[lo .. hi]; the total is
\* split in halves, which keeps the nesting of the evaluation shallow
RECURSIVE SliceSum(_, _, _, _)
SliceSum(board, slices, lo, hi) ==
    IF lo > hi THEN 0
    ELSE IF lo = hi THEN slice_utility(SliceOf(board, slices[lo]))
    ELSE SliceSum(board, slices, lo, (lo + hi) \div 2)
       + SliceSum(board, slices, ((lo + hi) \div 2) + 1, hi)

\* (center_col == RED).sum() * CENTER_WEIGHT
CenterScore(board) ==
    Cardinality({row \in Rows : board[row][BOARD_WIDTH \div 2] = RED}) * CENTER_WEIGHT

\* utility without the two returns for a board that has a winner
utility_heuristic_only(board) ==
    CenterScore(board) + SliceSum(board, Slices, 1, Len(Slices))

utility(board) ==
    LET game_winner == winner(board)
    IN  IF game_winner = RED THEN Inf
        ELSE IF game_winner = YELLOW THEN -Inf
        ELSE CenterScore(board) + SliceSum(board, Slices, 1, Len(Slices))

-----------------------------------------------------------------------------
(* Search engine *)

RECURSIVE alphabeta(_, _, _, _)
RECURSIVE MaxLoop(_, _, _, _, _, _)
RECURSIVE MinLoop(_, _, _, _, _, _)

\* the RED loop with >= in place of >: the last of equal actions is kept
RECURSIVE MaxLoopTieLast(_, _, _, _, _, _)
MaxLoopTieLast(board, depth, alpha, beta, todo, value_action) ==
    IF todo = <<>> THEN value_action
    ELSE LET action == Head(todo)
             value_by_taking_action == alphabeta(result(board, action), depth - 1, alpha, beta)
             new_value_action ==
                 IF value_by_taking_action[1] >= value_action[1]
                 THEN <<value_by_taking_action[1], action>>
                 ELSE value_action
             new_alpha == max(alpha, new_value_action[1])
         IN  IF new_alpha >= beta
             THEN new_value_action
             ELSE MaxLoopTieLast(board, depth, new_alpha, beta, Tail(todo), new_value_action)

\* the for loop of the RED branch from the head of todo on, value_action
\* being the pair held on entry to the iteration
MaxLoop(board, depth, alpha, beta, todo, value_action) ==
    IF todo = <<>> THEN value_action
    ELSE LET action == Head(todo)
             value_by_taking_action == alphabeta(result(board, action), depth - 1, alpha, beta)
             new_value_action ==
                 IF value_by_taking_action[1] > value_action[1]
                 THEN <<value_by_taking_action[1], action>>
                 ELSE value_action
             new_alpha == max(alpha, new_value_action[1])
         IN  IF new_alpha >= beta
             THEN new_value_action
             ELSE MaxLoop(board, depth, new_alpha, beta, Tail(todo), new_value_action)

\* the for loop of the YELLOW branch
MinLoop(board, depth, alpha, beta, todo, value_action) ==
    IF todo = <<>> THEN value_action
    ELSE LET action == Head(todo)
             value_by_taking_action == alphabeta(result(board, action), depth - 1, alpha, beta)
             new_value_action ==
                 IF value_by_taking_action[1] < value_action[1]
                 THEN <<value_by_taking_action[1], action>>
                 ELSE value_action
             new_beta == min(beta, new_value_action[1])
         IN  IF alpha >= new_beta
             THEN new_value_action
             ELSE MinLoop(board, depth, alpha, new_beta, Tail(todo), new_value_action)

alphabeta(board, depth, alpha, beta) ==
    IF depth = 0 \/ terminal(board)
    THEN <<utility(board), NoAction>>
    ELSE IF player(board) = RED
         THEN MaxLoop(board, depth, alpha, beta, actions(board), <<-Inf, NoAction>>)
         ELSE MinLoop(board, depth, alpha, beta, actions(board), <<Inf, NoAction>>)

minimax(board) == alphabeta(board, 5, -Inf, Inf)[2]

-----------------------------------------------------------------------------
(* Positions the runs start from: games played from the empty board, each    *)
(* move applied by result itself.                                            *)

\* the moves of game applied in turn, as long as each is one that actions()
\* offers at the time
RECURSIVE PlayFrom(_, _)
PlayFrom(b, game) ==
    IF game = <<>> \/ \A i \in 1 .. Len(actions(b)) : actions(b)[i] # Head(game)
    THEN b
    ELSE PlayFrom(result(b, Head(game)), Tail(game))

\* the empty board, two openings, two endgames with full columns and the
\* last moves of a game that fills the board with no winner
SeedGames ==
    { <<>>,
      <<4, 4, 2, 1, 6, 3, 5, 2, 4, 1, 2, 4, 3, 5, 0, 1, 6, 0>>,
      <<5, 3, 3, 4, 0, 4, 0, 0, 0, 5, 0, 2, 3, 6, 2, 4, 5, 6>>,
      <<5, 6, 2, 6, 4, 5, 4, 3, 3, 5, 4, 4, 6, 3, 0, 3, 4, 5, 4, 0, 0, 0, 3, 3,
        5, 0, 0, 5>>,
      <<3, 2, 3, 1, 2, 5, 2, 3, 2, 2, 3, 1, 3, 6, 1, 1, 3, 5, 2, 1, 1, 6, 6, 6,
        5, 5, 4, 6, 4, 6, 0, 0, 0, 0, 0, 0, 4, 4, 5>> }

SeedBoards == {PlayFrom(initial_board, game) : game \in SeedGames}

\* moves made beyond a seed position
MaxMoves == 4

-----------------------------------------------------------------------------
VARIABLES
    board,       \* the board held by the caller (main's board)
    op,          \* the call made last
    arg_board,   \* the board passed to the last call of result, as it was
    arg_after,   \* the same array as the caller sees it after the call
    move,        \* the action passed to the last call of result
    error,       \* the exception the last call ended with, None if it returned
    moves,       \* calls of result since the start
    depth,       \* depth of the last call of alphabeta
    found,       \* the (value, action) pair it returned
    pc,          \* where main is: "loop" (top of the while), "apply", "done", "crashed"
    human,       \* main's local player: the side typed in, upper()[0]
    player_turn, \* main's player_turn
    running,     \* main's running
    asked        \* opponent moves read so far

vars == <<board, op, arg_board, arg_after, move, error, moves, depth, found,
          pc, human, player_turn, running, asked>>

\* main is not running in the runs that call the functions directly
NoMain ==
    /\ pc = "off"
    /\ human = None
    /\ player_turn = FALSE
    /\ running = FALSE
    /\ asked = 0

mainVars == <<pc, human, player_turn, running, asked>>

ActionSet(b) == {actions(b)[i] : i \in 1 .. Len(actions(b))}

Init ==
    /\ board \in SeedBoards
    /\ op = "start"
    /\ arg_board = board
    /\ arg_after = board
    /\ move = NoAction
    /\ error = None
    /\ moves = 0
    /\ depth = 0
    /\ found = <<0, NoAction>>
    /\ NoMain

\* board = result(board, a) with a one of actions(board)
Drop(a) ==
    /\ moves < MaxMoves
    /\ a \in ActionSet(board)
    /\ board' = result(board, a)
    /\ op' = "result"
    /\ arg_board' = board
    /\ arg_after' = result_input(board, a)
    /\ move' = a
    /\ error' = None
    /\ moves' = moves + 1
    /\ UNCHANGED <<depth, found, mainVars>>

\* result called with a column that is completely full: the loop finds no
\* empty row and the copy is returned as it is; nothing is raised
DropFull(a) ==
    /\ a \notin ActionSet(board)
    /\ board' = result(board, a)
    /\ op' = "result_full"
    /\ arg_board' = board
    /\ arg_after' = result_input(board, a)
    /\ move' = a
    /\ error' = None
    /\ UNCHANGED <<moves, depth, found, mainVars>>

Next ==
    \/ \E a \in Cols : Drop(a)
    \/ \E a \in Cols : DropFull(a)

Spec == Init /\ [][Next]_vars

-----------------------------------------------------------------------------
(* The search, called on endgame positions: boards with at most three open  *)
(* columns, where a search to the depth minimax uses stays small.           *)

\* the depth minimax passes to alphabeta
MINIMAX_DEPTH == 5

SearchSeedGames ==
    { <<1, 5, 6, 6, 2, 2, 2, 4, 3, 0, 3, 4, 2, 2, 3, 0, 4, 3, 5, 0, 3, 2, 3, 4,
        4, 4, 0, 0, 0>>,
      <<1, 4, 3, 2, 0, 4, 3, 2, 4, 5, 2, 5, 4, 4, 3, 4, 2, 3, 2, 5, 0, 0, 3, 3,
        0, 2, 0, 0>>,
      <<4, 1, 1, 3, 4, 3, 0, 5, 2, 6, 5, 4, 4, 0, 2, 2, 5, 2, 2, 2, 5, 5, 0, 4,
        0, 0, 0, 4, 5>>,
      <<4, 5, 5, 6, 6, 6, 6, 4, 4, 5, 5, 1, 2, 5, 0, 5, 1, 6, 2, 6, 2, 2, 2, 1,
        1, 2, 1, 1>>,
      <<6, 2, 0, 3, 0, 3, 6, 3, 1, 0, 0, 4, 0, 0, 3, 6, 2, 3, 2, 4, 2, 4, 3, 2,
        4, 2, 4, 4>>,
      <<5, 6, 2, 6, 4, 5, 4, 3, 3, 5, 4, 4, 6, 3, 0, 3, 4, 5, 4, 0, 0, 0, 3, 3,
        5, 0, 0, 5>> }

SearchSeedBoards == {PlayFrom(initial_board, game) : game \in SearchSeedGames}

\* moves made beyond a seed position before the search is called
SearchMoves == 1

InitSearch ==
    /\ board \in SearchSeedBoards
    /\ op = "start"
    /\ arg_board = board
    /\ arg_after = board
    /\ move = NoAction
    /\ error = None
    /\ moves = 0
    /\ depth = 0
    /\ found = <<0, NoAction>>
    /\ NoMain

\* one more legal move on the board the search will be called on
SearchDrop(a) ==
    /\ op \in {"start", "result"}
    /\ moves < SearchMoves
    /\ a \in ActionSet(board)
    /\ board' = result(board, a)
    /\ op' = "result"
    /\ arg_board' = board
    /\ arg_after' = result_input(board, a)
    /\ move' = a
    /\ error' = None
    /\ moves' = moves + 1
    /\ UNCHANGED <<depth, found, mainVars>>

\* found = alphabeta(board, d, -inf, +inf)
Search(d) ==
    /\ op \in {"start", "result"}
    /\ op' = "alphabeta"
    /\ depth' = d
    /\ found' = alphabeta(board, d, -Inf, Inf)
    /\ UNCHANGED <<board, arg_board, arg_after, move, error, moves, mainVars>>

\* move = minimax(board)
Minimax ==
    /\ op \in {"start", "result"}
    /\ op' = "minimax"
    /\ move' = minimax(board)
    /\ UNCHANGED <<board, arg_board, arg_after, error, moves, depth, found, mainVars>>

NextSearch ==
    \/ \E a \in Cols : SearchDrop(a)
    \/ \E d \in 0 .. MINIMAX_DEPTH : Search(d)
    \/ Minimax

SpecSearch == InitSearch /\ [][NextSearch]_vars

-----------------------------------------------------------------------------
(* main: the interaction loop.  The side typed in is "red" or "yellow"; the *)
(* opponent types legal columns only: the columns of a recorded game while  *)
(* the board is open, any legal column once few cells are left.             *)

\* the opponent's columns in a game against the search that fills the board,
\* the search moving first (human = YELLOW) and second (human = RED)
OpponentGame(side) ==
    IF side = YELLOW
    THEN <<2, 1, 5, 3, 2, 1, 6, 1, 5, 1, 6, 6, 5, 6, 6, 0, 0, 0, 4, 5, 4>>
    ELSE <<0, 3, 0, 6, 4, 3, 0, 2, 4, 0, 4, 1, 1, 1, 2, 2, 1, 6, 5, 5, 6>>

\* with at most this many empty cells the opponent types any legal column
FreeCells == 4

OpponentInputs ==
    IF CountEq(board, EMPTY) <= FreeCells
    THEN ActionSet(board)
    ELSE IF asked < Len(OpponentGame(human))
         THEN {OpponentGame(human)[asked + 1]} \cap ActionSet(board)
         ELSE {}

InitMain ==
    /\ board = initial_board
    /\ human \in {YELLOW, RED}
    /\ player_turn = (human = YELLOW)
    /\ running = TRUE
    /\ pc = "loop"
    /\ asked = 0
    /\ op = "start"
    /\ arg_board = board
    /\ arg_after = board
    /\ move = NoAction
    /\ error = None
    /\ moves = 0
    /\ depth = 0
    /\ found = <<0, NoAction>>

\* opp = RED if player == YELLOW else YELLOW
opp == IF human = YELLOW THEN RED ELSE YELLOW

\* while running, player_turn: move = minimax(board)
AskSearch ==
    /\ pc = "loop" /\ running /\ player_turn
    /\ move' = minimax(board)
    /\ op' = "minimax"
    /\ pc' = "apply"
    /\ UNCHANGED <<board, arg_board, arg_after, error, moves, depth, found,
                   human, player_turn, running, asked>>

\* while running, not player_turn: move = int(input())
AskOpponent(col) ==
    /\ pc = "loop" /\ running /\ ~player_turn
    /\ col \in OpponentInputs
    /\ move' = col
    /\ op' = "input"
    /\ asked' = asked + 1
    /\ pc' = "apply"
    /\ UNCHANGED <<board, arg_board, arg_after, error, moves, depth, found,
                   human, player_turn, running>>

\* board = result(board, move), the two tests on winner(board), the flip of
\* player_turn; result(board, None) ends main with a ValueError (the test
\* board[row][None] == None has no truth value)
Apply ==
    /\ pc = "apply"
    /\ IF move = NoAction
       THEN /\ error' = "ValueError"
            /\ pc' = "crashed"
            /\ op' = "result"
            /\ UNCHANGED <<board, arg_board, arg_after, running, player_turn, moves>>
       ELSE LET new_board == result(board, move)
                game_winner == winner(new_board)
                go_on == ~(game_winner # None /\ game_winner = human) /\ ~(game_winner = opp)
            IN  /\ board' = new_board
                /\ arg_board' = board
                /\ arg_after' = result_input(board, move)
                /\ op' = "result"
                /\ error' = None
                /\ running' = go_on
                /\ player_turn' = ~player_turn
                /\ moves' = moves + 1
                /\ pc' = IF go_on THEN "loop" ELSE "done"
    /\ UNCHANGED <<move, depth, found, human, asked>>

NextMain ==
    \/ AskSearch
    \/ \E col \in Cols : AskOpponent(col)
    \/ Apply

SpecMain == InitMain /\ [][NextMain]_vars

-----------------------------------------------------------------------------
(* What the properties below are stated in: the geometry of the board,      *)
(* written without reference to the loops of the program.                   *)

Cells == Rows \X Cols

\* in each column the occupied cells are contiguous from the bottom row
Gravity(b) ==
    \A c \in Cols : \A r \in 0 .. (BOARD_HEIGHT - 2) :
        b[r][c] # None => b[r + 1][c] # None

\* horizontal, vertical, down-right and down-left steps as <<row, col>>
Lines == { <<0, 1>>, <<1, 0>>, <<1, 1>>, <<1, -1>> }

Run(r, c, d) == {<<r + i * d[1], c + i * d[2]>> : i \in 0 .. 3}

\* every run of four cells that lies on the board
AllWindows == {w \in {Run(t[1], t[2], t[3]) : t \in Rows \X Cols \X Lines} : w \subseteq Cells}

WindowsOf(d) == {w \in {Run(t[1], t[2], d) : t \in Rows \X Cols} : w \subseteq Cells}

HasFour(b, P) == \E w \in AllWindows : \A cell \in w : b[cell[1]][cell[2]] = P

Pieces(b, w, P) == Cardinality({cell \in w : b[cell[1]][cell[2]] = P})

WindowScore(b, w) ==
    LET reds == Pieces(b, w, RED)
        yellows == Pieces(b, w, YELLOW)
    IN  IF reds = 3 /\ yellows = 0 THEN 5
        ELSE IF reds = 2 /\ yellows = 0 THEN 2
        ELSE IF yellows = 3 /\ reds = 0 THEN -4
        ELSE IF yellows = 2 /\ reds = 0 THEN -1
        ELSE 0

\* the windows in some order, each once
RECURSIVE ListOf(_)
ListOf(ws) ==
    IF ws = {} THEN <<>>
    ELSE LET w == CHOOSE v \in ws : TRUE IN <<w>> \o ListOf(ws \ {w})

WindowList ==
    ListOf(WindowsOf(<<0, 1>>)) \o ListOf(WindowsOf(<<1, 0>>))
        \o ListOf(WindowsOf(<<1, 1>>)) \o ListOf(WindowsOf(<<1, -1>>))

\* the sum of the scores of windows lo .. hi of the list
RECURSIVE WindowTotal(_, _, _)
WindowTotal(b, lo, hi) ==
    IF lo = hi
    THEN WindowScore(b, WindowList[lo])
    ELSE WindowTotal(b, lo, (lo + hi) \div 2) + WindowTotal(b, ((lo + hi) \div 2) + 1, hi)

\* number of pieces in column c
Height(b, c) == Cardinality({r \in Rows : b[r][c] # None})

SeqToSet(q) == {q[i] : i \in 1 .. Len(q)}

-----------------------------------------------------------------------------
\* C4: result on a board that obeys gravity, with an action of actions(board),
\* returns a board that obeys gravity and differs from its input in exactly
\* one cell: the lowest empty row of the column, now holding player(board);
\* the input array is as it was.  Every board reached by such moves obeys
\* gravity.
C4_ResultDropsOnePiece ==
    /\ Gravity(board)
    /\ (op = "result" /\ Gravity(arg_board)) =>
          /\ CountNotNone(board) = CountNotNone(arg_board) + 1
          /\ \E r \in Rows :
                /\ arg_board[r][move] = None
                /\ r = BOARD_HEIGHT - 1 \/ arg_board[r + 1][move] # None
                /\ board[r][move] = player(arg_board)
                /\ \A cell \in Cells \ {<<r, move>>} :
                      board[cell[1]][cell[2]] = arg_board[cell[1]][cell[2]]
          /\ arg_after = arg_board

\* a piece was dropped on top of another one
C4_Witness ==
    /\ op = "result"
    /\ Height(arg_board, move) >= 2
    /\ Height(board, move) = Height(arg_board, move) + 1

\* C5: result called with a completely full column ends with an
\* IllegalMoveError and returns no board.
C5_FullColumnRaises ==
    op = "result_full" => error = "IllegalMoveError"

\* C6: RED is the first mover: player(initial_board()) = RED and the first
\* piece result places on the empty board is RED.
C6_RedMovesFirst ==
    /\ board = initial_board => player(board) = RED
    /\ (op = "result" /\ arg_board = initial_board) => board[BOARD_HEIGHT - 1][move] = RED

\* the runs winner compares, as sets of cells
ScanCells(s) == {<<s.y + i * s.dy, s.x + i * s.dx>> : i \in 0 .. 3}

\* C7: on a board where at most one player has four in a line, winner returns
\* P exactly when P has four in a horizontal, vertical or diagonal line, and
\* None exactly when nobody has; the scan compares every run of four that
\* lies on the board and reads no cell off the board.
C7_ScanCoversEveryRun ==
    /\ {ScanCells(ScanRuns[k]) : k \in 1 .. Len(ScanRuns)} = AllWindows
    /\ \A k \in 1 .. Len(ScanRuns) : ScanCells(ScanRuns[k]) \subseteq Cells

C7_WinnerIsFourInARow ==
    LET red == HasFour(board, RED)
        yellow == HasFour(board, YELLOW)
        w == winner(board)
    IN  /\ ~(red /\ yellow) =>
              /\ w = RED <=> red
              /\ w = YELLOW <=> yellow
              /\ w = None <=> ~red /\ ~yellow
        /\ C7_ScanCoversEveryRun

\* RED has four on a diagonal and nothing else, and winner says RED
C7_Witness ==
    /\ winner(board) = RED
    /\ \E w \in WindowsOf(<<1, 1>>) \cup WindowsOf(<<1, -1>>) :
          \A cell \in w : board[cell[1]][cell[2]] = RED
    /\ ~\E w \in WindowsOf(<<0, 1>>) \cup WindowsOf(<<1, 0>>) :
          \A cell \in w : board[cell[1]][cell[2]] = RED

\* C8: on a board without four in a line utility is 3 per RED piece in
\* column 3 plus, over the 69 windows (24 row, 21 column, 12 + 12 diagonal),
\* each once: +5 for 3 RED and no YELLOW, +2 for 2 RED and no YELLOW, -4 for
\* 3 YELLOW and no RED, -1 for 2 YELLOW and no RED, 0 otherwise.
C8_EveryWindowOnce ==
    /\ Len(Slices) = 69 /\ Cardinality(AllWindows) = 69
    /\ Len(WindowList) = 69 /\ SeqToSet(WindowList) = AllWindows
    /\ Cardinality({SeqToSet(Slices[k]) : k \in 1 .. Len(Slices)}) = 69
    /\ {SeqToSet(RowSlices[k]) : k \in 1 .. Len(RowSlices)} = WindowsOf(<<0, 1>>)
    /\ {SeqToSet(ColumnSlices[k]) : k \in 1 .. Len(ColumnSlices)} = WindowsOf(<<1, 0>>)
    /\ {SeqToSet(DownRightSlices[k]) : k \in 1 .. Len(DownRightSlices)} = WindowsOf(<<1, 1>>)
    /\ {SeqToSet(UpRightSlices[k]) : k \in 1 .. Len(UpRightSlices)} = WindowsOf(<<1, -1>>)
    /\ Len(RowSlices) = 24 /\ Len(ColumnSlices) = 21
    /\ Len(DownRightSlices) = 12 /\ Len(UpRightSlices) = 12

C9_ActionsAreOpenColumns ==
    /\ \A i \in 1 .. Len(actions(board)) - 1 : actions(board)[i] < actions(board)[i + 1]
    /\ SeqToSet(actions(board)) = {c \in Cols : board[0][c] = None}
    /\ SeqToSet(actions(board)) = {c \in Cols : Height(board, c) < BOARD_HEIGHT}
    /\ actions(board) = <<>> <=> CountNotNone(board) = BOARD_WIDTH * BOARD_HEIGHT

\* the last legal move filled a column, which actions no longer offers
C9_Witness ==
    /\ op = "result"
    /\ Height(board, move) = BOARD_HEIGHT
    /\ move \notin SeqToSet(actions(board))
    /\ actions(board) # <<>>

-----------------------------------------------------------------------------
(* The search the pruned one is compared with: every action of every node   *)
(* is searched, with the same leaf score, the same column order and the     *)
(* same strict comparison.                                                  *)

RECURSIVE FullMinimax(_, _)
RECURSIVE FullLoop(_, _, _, _)

FullLoop(b, d, todo, best) ==
    IF todo = <<>> THEN best
    ELSE LET child == FullMinimax(result(b, Head(todo)), d - 1)
             better == IF player(b) = RED THEN child[1] > best[1] ELSE child[1] < best[1]
         IN  FullLoop(b, d, Tail(todo), IF better THEN <<child[1], Head(todo)>> ELSE best)

FullMinimax(b, d) ==
    IF d = 0 \/ terminal(b)
    THEN <<utility(b), NoAction>>
    ELSE FullLoop(b, d, actions(b),
                  IF player(b) = RED THEN <<-Inf, NoAction>> ELSE <<Inf, NoAction>>)

\* the actions of b that complete a RED four at once
WinningMoves(b) == {a \in ActionSet(b) : winner(result(b, a)) = RED}

\* C1: on a board that is not terminal, at depth >= 1, alphabeta returns one
\* of actions(board); None is returned only on a terminal board or at depth
\* 0; minimax never returns None on a board that is not terminal.
C1_SearchReturnsLegalAction ==
    /\ (op = "alphabeta" /\ depth >= 1 /\ ~terminal(board)) => found[2] \in ActionSet(board)
    /\ (op = "alphabeta" /\ found[2] = NoAction) => (depth = 0 \/ terminal(board))
    /\ (op = "minimax" /\ ~terminal(board)) => move \in ActionSet(board)

\* C2: alphabeta with the window (-inf, +inf) returns the (score, action)
\* pair of the unpruned minimax of the same depth.
C2_AlphaBetaEqualsFullMinimax ==
    op = "alphabeta" => found = FullMinimax(board, depth)

\* a search to the full depth of a board with three open columns, none of
\* them decided, where the first column is not the one returned
C2_Witness ==
    /\ op = "alphabeta"
    /\ depth = MINIMAX_DEPTH
    /\ ~terminal(board)
    /\ Len(actions(board)) = 3
    /\ found[1] > -Inf /\ found[1] < Inf
    /\ found[2] # actions(board)[1]

\* C3 as stated: RED to move with a column that completes a four: alphabeta
\* at any depth >= 1 returns +inf with an action whose successor is won by RED.
C3_ReturnsImmediateWin ==
    (op = "alphabeta" /\ depth >= 1 /\ ~terminal(board) /\ player(board) = RED
        /\ WinningMoves(board) # {}) =>
            /\ found[1] = Inf
            /\ found[2] \in WinningMoves(board)

\* C3 amended: the score is +inf and the action is the lowest column whose
\* subtree, searched one ply less deep, scores +inf; at depth 1 and 2 that
\* column completes a four at once.
C3_ReturnsFirstForcedWin ==
    (op = "alphabeta" /\ depth >= 1 /\ ~terminal(board) /\ player(board) = RED
        /\ WinningMoves(board) # {}) =>
            /\ found[1] = Inf
            /\ found[2] \in ActionSet(board)
            /\ alphabeta(result(board, found[2]), depth - 1, -Inf, Inf)[1] = Inf
            /\ \A a \in ActionSet(board) :
                  a < found[2] => alphabeta(result(board, a), depth - 1, -Inf, Inf)[1] < Inf
            /\ depth <= 2 => found[2] \in WinningMoves(board)

\* a search three or more plies deep that returns a column which wins only
\* later, though another column wins at once
C3_Witness ==
    /\ op = "alphabeta" /\ depth >= 3 /\ ~terminal(board) /\ player(board) = RED
    /\ WinningMoves(board) # {}
    /\ found[1] = Inf
    /\ found[2] \in ActionSet(board) \ WinningMoves(board)

\* C10: main looks at the outcome after every half-move and leaves the loop
\* as soon as the board is terminal, by a four or by a full board: it is
\* never at the top of the loop, asking for a move, nor about to apply one,
\* on a terminal board.
C10_LoopEndsOnTerminalBoard ==
    pc \in {"loop", "apply"} => ~terminal(board)

=============================================================================
